---- MODULE Spec2Model ----
(***************************************************************************)
(* TouchDistanceTracker (src/dist/touchDistanceTracker.js) over a          *)
(* localStorage store.                                                     *)
(*                                                                         *)
(* Numbers.  A JavaScript Number that holds a distance is modelled on a    *)
(* fixed-point grid: the integer n stands for n / Scale millimetres (or    *)
(* pixels), and every arithmetic operation rounds its exact result to the  *)
(* nearest grid value, as an IEEE double operation rounds to the nearest   *)
(* double.  NaN is a separate value.  Equality of numbers is identity of   *)
(* values (Object.is, the equality of jest's toBe), so NaN equals NaN.     *)
(*                                                                         *)
(* Strings.  A localStorage value is a sequence of one-character strings;  *)
(* Number.prototype.toString, parseFloat, JSON.stringify and JSON.parse    *)
(* work on these sequences.  Storage keys are TLA+ strings.                *)
(***************************************************************************)
EXTENDS Integers, Sequences, FiniteSets, TLC

VARIABLES
    store,      \* localStorage: a function from the keys present to their values
    trackers,   \* the live TouchDistanceTracker instances, oldest first
    calls,      \* the observer callbacks invoked by the last operation, in order
    thrown,     \* the exception the last operation raised ("" when it returned)
    loaded,     \* history: per tracker, whether its totalDistance still holds the
                \* value the constructor read from the store
    saved,      \* history: per key, the number saveTotalDistance last wrote there
    removed,    \* history: per tracker, the observers removed and not added since
    ops         \* history: the number of operations so far

vars == <<store, trackers, calls, thrown, loaded, saved, removed, ops>>

(***************************************************************************)
(* Bounds of the model.                                                    *)
(***************************************************************************)
MaxOps == 5     \* operations in one behaviour

(***************************************************************************)
(* Numbers                                                                 *)
(***************************************************************************)
Scale == 1000

NaN == -(2 ^ 30)

IsNaN(n) == n = NaN

\* a + b of JavaScript: NaN if either operand is NaN
Add(a, b) == IF IsNaN(a) \/ IsNaN(b) THEN NaN ELSE a + b

\* the nearest integer to p / q, for p >= 0 and q > 0
RoundDiv(p, q) == (2 * p + q) \div (2 * q)

RECURSIVE SqrtSearch(_, _, _)
\* the largest r in lo..hi with r * r <= v
SqrtSearch(v, lo, hi) ==
    IF lo >= hi THEN lo
    ELSE LET mid == (lo + hi + 1) \div 2
         IN  IF mid * mid <= v THEN SqrtSearch(v, mid, hi)
                               ELSE SqrtSearch(v, lo, mid - 1)

\* Math.sqrt(s) on the grid, for an integer s >= 0: the nearest integer to
\* Scale * sqrt(s)
Sqrt(s) ==
    LET v == s * Scale * Scale
        r == SqrtSearch(v, 0, s * Scale)
    IN  IF v - r * r > r THEN r + 1 ELSE r

(***************************************************************************)
(* Strings                                                                 *)
(***************************************************************************)
Digits == <<"0", "1", "2", "3", "4", "5", "6", "7", "8", "9">>

IsDigit(c) == \E d \in 1..10 : Digits[d] = c

DigitVal(c) == (CHOOSE d \in 1..10 : Digits[d] = c) - 1

RECURSIVE NatToStr(_)
\* the decimal digits of a natural number
NatToStr(n) ==
    IF n < 10 THEN <<Digits[n + 1]>>
    ELSE NatToStr(n \div 10) \o <<Digits[(n % 10) + 1]>>

RECURSIVE StripZeros(_)
StripZeros(s) ==
    IF s # <<>> /\ s[Len(s)] = "0" THEN StripZeros(SubSeq(s, 1, Len(s) - 1)) ELSE s

RECURSIVE PadZeros(_, _)
PadZeros(s, n) == IF Len(s) < n THEN PadZeros(<<"0">> \o s, n) ELSE s

\* the number of fraction digits of the grid
FracDigits == Len(NatToStr(Scale)) - 1

\* the integer part alone, as toFixed(0) of the truncated number prints it
NumberToStringInteger(n) ==
    IF IsNaN(n) THEN <<"N", "a", "N">>
    ELSE (IF n < 0 THEN <<"-">> ELSE <<>>) \o NatToStr((IF n < 0 THEN -n ELSE n) \div Scale)

\* Number.prototype.toString: the shortest decimal that reads back as the number
NumberToString(n) ==
    IF IsNaN(n) THEN <<"N", "a", "N">>
    ELSE LET a == IF n < 0 THEN -n ELSE n
             sign == IF n < 0 THEN <<"-">> ELSE <<>>
             frac == StripZeros(PadZeros(NatToStr(a % Scale), FracDigits))
         IN  sign \o NatToStr(a \div Scale)
                  \o (IF frac = <<>> THEN <<>> ELSE <<".">> \o frac)

RECURSIVE SkipSpaces(_, _)
SkipSpaces(s, i) == IF i <= Len(s) /\ s[i] = " " THEN SkipSpaces(s, i + 1) ELSE i

RECURSIVE DigitsEnd(_, _)
\* the first position at or after i that holds no digit
DigitsEnd(s, i) == IF i <= Len(s) /\ IsDigit(s[i]) THEN DigitsEnd(s, i + 1) ELSE i

RECURSIVE DigitsValue(_)
DigitsValue(s) ==
    IF s = <<>> THEN 0
    ELSE 10 * DigitsValue(SubSeq(s, 1, Len(s) - 1)) + DigitVal(s[Len(s)])

\* parseFloat: the longest prefix (after white space) that is a decimal literal;
\* NaN when there is none.  Fraction digits beyond the grid are dropped.
ParseFloat(s) ==
    LET i0 == SkipSpaces(s, 1)
        neg == i0 <= Len(s) /\ s[i0] = "-"
        i1 == IF i0 <= Len(s) /\ s[i0] \in {"-", "+"} THEN i0 + 1 ELSE i0
        i2 == DigitsEnd(s, i1)
        dot == i2 <= Len(s) /\ s[i2] = "."
        i3 == IF dot THEN DigitsEnd(s, i2 + 1) ELSE i2
        ip == SubSeq(s, i1, i2 - 1)
        fp == IF dot THEN SubSeq(s, i2 + 1, i3 - 1) ELSE <<>>
        fd == IF Len(fp) >= FracDigits THEN SubSeq(fp, 1, FracDigits)
              ELSE fp \o [k \in 1..(FracDigits - Len(fp)) |-> "0"]
        a == DigitsValue(ip) * Scale + DigitsValue(fd)
    IN  IF ip = <<>> /\ fp = <<>> THEN NaN
        ELSE IF neg THEN -a ELSE a

(***************************************************************************)
(* JSON, for the touch log: an array of {x, y, time_millis} objects        *)
(***************************************************************************)
Chars(str) ==
    CASE str = "x" -> <<"{", "\"", "x", "\"", ":">>
      [] str = "y" -> <<",", "\"", "y", "\"", ":">>
      [] str = "time_millis" ->
            <<",", "\"", "t", "i", "m", "e", "_", "m", "i", "l", "l", "i", "s", "\"", ":">>

\* JSON.stringify of one log entry
StringifyEntry(e) ==
    Chars("x") \o NatToStr(e.x) \o Chars("y") \o NatToStr(e.y)
        \o Chars("time_millis") \o NatToStr(e.time_millis) \o <<"}">>

RECURSIVE StringifyEntries(_)
StringifyEntries(log) ==
    IF log = <<>> THEN <<>>
    ELSE IF Len(log) = 1 THEN StringifyEntry(log[1])
    ELSE StringifyEntry(log[1]) \o <<",">> \o StringifyEntries(Tail(log))

\* JSON.stringify of a log
JSONstringify(log) == <<"[">> \o StringifyEntries(log) \o <<"]">>

\* position after the literal lit when s holds it at position i, else 0
Expect(s, i, lit) ==
    IF i > 0 /\ i + Len(lit) - 1 <= Len(s) /\ SubSeq(s, i, i + Len(lit) - 1) = lit
    THEN i + Len(lit) ELSE 0

\* position after the JSON natural number at position i, else 0
NumberEnd(s, i) ==
    IF i = 0 \/ i > Len(s) \/ ~IsDigit(s[i]) THEN 0
    ELSE IF s[i] = "0" THEN i + 1
    ELSE DigitsEnd(s, i)

\* the text of an entry as JSON.stringify writes it; <<>> stands for a number
EntryPattern ==
    <<Chars("x"), <<>>, Chars("y"), <<>>, Chars("time_millis"), <<>>, <<"}">>>>

RECURSIVE MatchEntry(_, _, _, _)
\* the rest of MatchEntry once part k of the pattern ended at position j (0: no match)
MatchNext(s, i, k, nums, j) ==
    IF j = 0 THEN [next |-> 0, nums |-> <<>>]
    ELSE IF EntryPattern[k] = <<>>
         THEN MatchEntry(s, j, k + 1, Append(nums, DigitsValue(SubSeq(s, i, j - 1))))
    ELSE MatchEntry(s, j, k + 1, nums)

\* the entry at position i, matched from part k of the pattern on, nums being the
\* numbers read so far: [next |-> position after it (0: none), nums |-> the numbers]
MatchEntry(s, i, k, nums) ==
    IF k > Len(EntryPattern) THEN [next |-> i, nums |-> nums]
    ELSE MatchNext(s, i, k, nums,
                   IF EntryPattern[k] = <<>> THEN NumberEnd(s, i)
                   ELSE Expect(s, i, EntryPattern[k]))

\* the entry a match m read
EntryOf(m) ==
    IF m.next = 0 THEN [next |-> 0, entry |-> <<>>]
    ELSE [next |-> m.next,
          entry |-> <<[x |-> m.nums[1], y |-> m.nums[2], time_millis |-> m.nums[3]]>>]

\* the entry at position i: [next |-> position after it (0: none), entry |-> it]
ParseEntry(s, i) == EntryOf(MatchEntry(s, i, 1, <<>>))

RECURSIVE ParseEntries(_, _, _)
\* the rest of ParseEntries once the entry p was read
ParseRest(s, acc, p) ==
    IF p.next = 0 THEN [kind |-> "SyntaxError", value |-> <<>>]
    ELSE IF Expect(s, p.next, <<"]">>) = Len(s) + 1
         THEN [kind |-> "array", value |-> acc \o p.entry]
    ELSE IF Expect(s, p.next, <<",">>) # 0
         THEN ParseEntries(s, p.next + 1, acc \o p.entry)
    ELSE [kind |-> "SyntaxError", value |-> <<>>]

\* the entries from position i to the closing bracket that ends s
ParseEntries(s, i, acc) == ParseRest(s, acc, ParseEntry(s, i))

\* a JSON number, or one of the literals null, true and false
IsJSONScalar(s) ==
    \/ s \in {<<"n", "u", "l", "l">>, <<"t", "r", "u", "e">>, <<"f", "a", "l", "s", "e">>}
    \/ LET i1 == IF s # <<>> /\ s[1] = "-" THEN 2 ELSE 1
           i2 == NumberEnd(s, i1)
           i3 == IF i2 # 0 /\ i2 <= Len(s) /\ s[i2] = "."
                 THEN (IF DigitsEnd(s, i2 + 1) > i2 + 1 THEN DigitsEnd(s, i2 + 1) ELSE 0)
                 ELSE i2
       IN  i3 = Len(s) + 1

\* JSON.parse of the texts the stores of this model hold (a log as
\* JSON.stringify writes it, a number or literal, text that is no JSON):
\* [kind |-> "array", value |-> the log], [kind |-> "other"] for a value that is
\* no array, [kind |-> "SyntaxError"] when it throws
JSONparse(s) ==
    IF s = <<"[", "]">> THEN [kind |-> "array", value |-> <<>>]
    ELSE IF s # <<>> /\ s[1] = "[" THEN ParseEntries(s, 2, <<>>)
    ELSE IF IsJSONScalar(s) THEN [kind |-> "other", value |-> <<>>]
    ELSE [kind |-> "SyntaxError", value |-> <<>>]

(***************************************************************************)
(* localStorage                                                            *)
(***************************************************************************)
\* localStorage.getItem(key) is not null
HasItem(st, key) == key \in DOMAIN st

\* localStorage.getItem(key) is truthy: present and not the empty string
Truthy(st, key) == HasItem(st, key) /\ st[key] # <<>>

\* localStorage.setItem(key, value)
SetItem(st, key, value) ==
    [k \in DOMAIN st \cup {key} |-> IF k = key THEN value ELSE st[k]]

\* localStorage.removeItem(key)
RemoveItem(st, key) == [k \in DOMAIN st \ {key} |-> st[k]]

(***************************************************************************)
(* TouchDistanceTracker                                                    *)
(***************************************************************************)
DefaultDpi == 96

\* `totalDistance-${String(index).padStart(2, "0")}`
DefaultKey(index) ==
    LET str == ToString(index)
    IN  "totalDistance-" \o (IF Len(str) < 2 THEN "0" \o str ELSE str)

RECURSIVE ProbeIndex(_, _)
\* the while loop of generateDefaultStorageKey
ProbeIndex(st, index) ==
    IF Truthy(st, DefaultKey(index)) THEN ProbeIndex(st, index + 1) ELSE index

generateDefaultStorageKey(st) == DefaultKey(ProbeIndex(st, 1))

addObserver(tk, observer) ==
    [tk EXCEPT !.observers = Append(@, observer)]

RECURSIVE DropFirst(_, _)
DropFirst(obs, observer) ==
    IF obs = <<>> THEN <<>>
    ELSE IF Head(obs) = observer THEN Tail(obs)
    ELSE <<Head(obs)>> \o DropFirst(Tail(obs), observer)

\* removal of the first registration only (indexOf and splice)
removeObserverFirst(tk, observer) ==
    [tk EXCEPT !.observers = DropFirst(@, observer)]

removeObserver(tk, observer) ==
    [tk EXCEPT !.observers = SelectSeq(@, LAMBDA obs : obs # observer)]

\* the callbacks an observer object implements
Implements(observer) ==
    CASE observer = "oAll" -> {"onPointsUpdated", "onLinesUpdated", "onTotalDistanceUpdated"}
      [] observer = "oPts" -> {"onPointsUpdated"}
      [] observer = "oThrow" -> {"onPointsUpdated", "onLinesUpdated"}
      [] observer = "oRemover" -> {"onPointsUpdated"}
      [] observer = "oAdder" -> {"onPointsUpdated"}
      [] OTHER -> {}

\* notification only once there is a line to show
NotifiesWithLines(tk) == tk.mode = "visualization" /\ tk.lines # <<>>

\* whether notifyObservers notifies at all
Notifies(tk) == tk.mode = "visualization"

\* the callback throws: the onLinesUpdated of the observer object oThrow
Throws(call) == call.observer = "oThrow" /\ call.callback = "onLinesUpdated"

\* the observers the callback removes with removeObserver: the onPointsUpdated of
\* the observer object oRemover removes oAll
Removes(call) ==
    IF call.observer = "oRemover" /\ call.callback = "onPointsUpdated"
    THEN <<"oAll">> ELSE <<>>

\* the observers the callback adds with addObserver: the onPointsUpdated of the
\* observer object oAdder adds oPts
Adds(call) ==
    IF call.observer = "oAdder" /\ call.callback = "onPointsUpdated"
    THEN <<"oPts">> ELSE <<>>

\* the callbacks in the order notifyObservers tests and invokes them
Callbacks == <<"onPointsUpdated", "onLinesUpdated", "onTotalDistanceUpdated">>

\* the invocation of callback c of an observer: [...this.points],
\* [...this.lines] or this.totalDistance is passed
Call(tk, observer, c) ==
    [observer |-> observer, callback |-> Callbacks[c],
     arg |-> CASE c = 1 -> tk.points [] c = 2 -> tk.lines [] OTHER -> tk.totalDistance]

\* a notification round about to start: array is the array forEach was called
\* on, same tells whether this.observers still is that array
Round(tk) ==
    [tracker |-> tk, array |-> tk.observers, same |-> TRUE, calls |-> <<>>, thrown |-> ""]

\* the exception of a callback caught and dropped
AfterThrowSwallowed(r, call) == [r EXCEPT !.calls = Append(@, call)]

\* the round after a callback that throws: the exception leaves forEach
AfterThrow(r, call) == [r EXCEPT !.calls = Append(@, call), !.thrown = "ObserverError"]

\* the round after a callback that calls removeObserver: filter makes a new
\* array, this.observers is no longer the array of the round
AfterRemove(r, call) ==
    [r EXCEPT !.calls = Append(@, call),
              !.tracker = removeObserver(@, Removes(call)[1]),
              !.same = FALSE]

\* the round after a callback that calls addObserver: push extends
\* this.observers in place, which is the array of the round while it is the same
AfterAdd(r, call) ==
    [r EXCEPT !.calls = Append(@, call),
              !.tracker = addObserver(@, Adds(call)[1]),
              !.array = IF r.same THEN Append(@, Adds(call)[1]) ELSE @]

\* the round after the invocation call
AfterCallback(r, call) ==
    IF Throws(call) THEN AfterThrow(r, call)
    ELSE IF Removes(call) # <<>> THEN AfterRemove(r, call)
    ELSE IF Adds(call) # <<>> THEN AfterAdd(r, call)
    ELSE [r EXCEPT !.calls = Append(@, call)]

\* the length read again at every element
VisitedLengthLive(array, len) == Len(array)

\* the number of elements forEach visits: the length of the array when forEach
\* was called, elements appended later are not visited
VisitedLength(array, len) == len

RECURSIVE forEach(_, _, _, _)
\* this.observers.forEach(...) from callback c of element n on, len being the
\* length of the array when forEach was called
forEach(r, n, c, len) ==
    IF r.thrown # "" \/ n > VisitedLength(r.array, len) THEN r
    ELSE IF c > Len(Callbacks) THEN forEach(r, n + 1, 1, len)
    ELSE IF Callbacks[c] \notin Implements(r.array[n]) THEN forEach(r, n, c + 1, len)
    ELSE forEach(AfterCallback(r, Call(r.tracker, r.array[n], c)), n, c + 1, len)

\* notifyObservers: the round when it ends (the tracker, the callbacks invoked
\* in order, the exception it is left by)
notifyObservers(tk) ==
    IF Notifies(tk) THEN forEach(Round(tk), 1, 1, Len(tk.observers)) ELSE Round(tk)

saveTotalDistance(tk, st) ==
    IF tk.storageKey # ""
    THEN SetItem(st, tk.storageKey, NumberToString(tk.totalDistance))
    ELSE st

\* the tracker after loadTotalDistance
loadTotalDistance(tk, st) ==
    IF tk.storageKey # "" /\ Truthy(st, tk.storageKey)
    THEN [tk EXCEPT !.totalDistance = ParseFloat(st[tk.storageKey])]
    ELSE tk

\* the log entry left in place
removeTouchLogNot(tk, st) == st

\* the removal of the log entry, in removeStorage and in reset
removeTouchLog(tk, st) ==
    IF tk.touchLogKey # "" THEN RemoveItem(st, tk.touchLogKey) ELSE st

\* removeStorage that forgets the log entry
removeStorageTotalOnly(tk, st) ==
    IF tk.storageKey # "" THEN RemoveItem(st, tk.storageKey) ELSE st

removeStorage(tk, st) ==
    removeTouchLog(tk, IF tk.storageKey # "" THEN RemoveItem(st, tk.storageKey) ELSE st)

\* the differences added without the squares and the root: negative when the
\* pointer moves left or up
calculateDistanceSigned(x1, y1, x2, y2) == ((x2 - x1) + (y2 - y1)) * Scale

\* Math.sqrt(Math.pow(x2 - x1, 2) + Math.pow(y2 - y1, 2)), in pixels on the grid
calculateDistance(x1, y1, x2, y2) ==
    Sqrt((x2 - x1) * (x2 - x1) + (y2 - y1) * (y2 - y1))

\* the conversion with the default dpi in place of this.dpi
convertToMMDefaultDpi(distanceInPixels, dpi) ==
    RoundDiv(distanceInPixels * 254, 10 * DefaultDpi)

\* distanceInPixels * (25.4 / dpi)
convertToMM(distanceInPixels, dpi) == RoundDiv(distanceInPixels * 254, 10 * dpi)

\* the log written under the key of the total
LogKeyIsStorageKey(tk) == tk.storageKey

\* the key saveTouchLog writes the log under
LogKey(tk) == tk.touchLogKey

\* JSON.parse(existingLog), or [] when the entry is absent or empty
ParsedLog(st, key) ==
    IF Truthy(st, key) THEN JSONparse(st[key]) ELSE [kind |-> "array", value |-> <<>>]

\* the new entry written alone, the entries read dropped
PushAndStoreAlone(st, key, parsed, touchData) ==
    IF parsed.kind = "SyntaxError" THEN [thrown |-> "SyntaxError", store |-> st]
    ELSE IF parsed.kind # "array" THEN [thrown |-> "TypeError", store |-> st]
    ELSE [thrown |-> "", store |-> SetItem(st, key, JSONstringify(<<touchData>>))]

\* log.push(touchData) and setItem, for the parsed log
PushAndStore(st, key, parsed, touchData) ==
    IF parsed.kind = "SyntaxError" THEN [thrown |-> "SyntaxError", store |-> st]
    ELSE IF parsed.kind # "array" THEN [thrown |-> "TypeError", store |-> st]
    ELSE [thrown |-> "",
          store |-> SetItem(st, key, JSONstringify(Append(parsed.value, touchData)))]

\* saveTouchLog: [thrown |-> the exception ("": none), store |-> the store after]
saveTouchLog(tk, st, touchData) ==
    IF tk.touchLogKey = "" THEN [thrown |-> "", store |-> st]
    ELSE PushAndStore(st, LogKey(tk), ParsedLog(st, LogKey(tk)), touchData)

\* what getTouchLog returns for the parsed log
LogResult(parsed) ==
    IF parsed.kind = "SyntaxError"
    THEN [thrown |-> "SyntaxError", kind |-> "none", value |-> <<>>]
    ELSE [thrown |-> "", kind |-> parsed.kind, value |-> parsed.value]

\* getTouchLog: [thrown |-> the exception, kind |-> the kind of value, value |-> the log]
getTouchLog(tk, st) ==
    IF tk.touchLogKey # "" THEN LogResult(ParsedLog(st, tk.touchLogKey))
    ELSE [thrown |-> "", kind |-> "array", value |-> <<>>]

\* `=` written for `+=`
AddDistanceAssign(totalDistance, distanceInMM) == distanceInMM

\* this.totalDistance += distanceInMM
AddDistance(totalDistance, distanceInMM) == Add(totalDistance, distanceInMM)

\* the line drawn from the first point, not from the last position
WithLineFromFirst(tk, x, y, distanceInMM) ==
    [tk EXCEPT !.totalDistance = AddDistance(@, distanceInMM),
               !.lines = Append(@, [x1 |-> tk.points[1].x,
                                    y1 |-> tk.points[1].y,
                                    x2 |-> x, y2 |-> y,
                                    distance |-> distanceInMM])]

\* the tracker with the total raised by distanceInMM and the line pushed
WithLine(tk, x, y, distanceInMM) ==
    [tk EXCEPT !.totalDistance = AddDistance(@, distanceInMM),
               !.lines = Append(@, [x1 |-> tk.lastTouchPosition[1].x,
                                    y1 |-> tk.lastTouchPosition[1].y,
                                    x2 |-> x, y2 |-> y,
                                    distance |-> distanceInMM])]

\* the total persisted only by a tracker that notifies
SavedInVisualization(moved, st) ==
    [tracker |-> moved,
     store |-> IF moved.mode = "visualization" THEN saveTotalDistance(moved, st) ELSE st]

\* the tracker moved, with the store after saveTotalDistance
Saved(moved, st) == [tracker |-> moved, store |-> saveTotalDistance(moved, st)]

\* the body of `if (this.lastTouchPosition)` in handleTouch:
\* [tracker |-> the tracker after, store |-> the store after]
TouchWithPrevious(tk, st, x, y) ==
    Saved(WithLine(tk, x, y,
                   convertToMM(calculateDistance(tk.lastTouchPosition[1].x,
                                                 tk.lastTouchPosition[1].y, x, y),
                               tk.dpi)),
          st)

\* the result of handleTouch and of reset, r being the notification round
Result(st, r) ==
    [tracker |-> r.tracker, store |-> st, calls |-> r.calls, thrown |-> r.thrown]

\* the end of handleTouch and of reset: this.notifyObservers()
Notified(after, st) == Result(st, notifyObservers(after))

\* handleTouch from `this.points.push(newPoint)` on
PushPoint(moved, newPoint) ==
    Notified([moved.tracker EXCEPT !.points = Append(@, newPoint),
                                   !.lastTouchPosition = <<newPoint>>],
             moved.store)

\* handleTouch after saveTouchLog returned logged
AfterLog(tk, st, x, y, logged) ==
    IF logged.thrown # ""
    THEN [tracker |-> tk, store |-> st, calls |-> <<>>, thrown |-> logged.thrown]
    ELSE PushPoint(IF tk.lastTouchPosition # <<>>
                   THEN TouchWithPrevious(tk, logged.store, x, y)
                   ELSE [tracker |-> tk, store |-> logged.store],
                   [x |-> x, y |-> y])

\* handleTouch: [tracker, store, calls, thrown] after the call
handleTouch(tk, st, x, y, time_millis) ==
    AfterLog(tk, st, x, y,
             saveTouchLog(tk, st, [x |-> x, y |-> y, time_millis |-> time_millis]))

\* reset that forgets `this.lines = []`
ResetFieldsKeepLines(tk) ==
    [tk EXCEPT !.lastTouchPosition = <<>>, !.totalDistance = 0, !.points = <<>>]

\* the fields reset assigns
ResetFields(tk) ==
    [tk EXCEPT !.lastTouchPosition = <<>>, !.totalDistance = 0,
               !.points = <<>>, !.lines = <<>>]

\* reset that does not persist the zeroed total
ResetStoreUnsaved(after, st) == Notified(after, removeTouchLog(after, st))

\* reset after the field assignments: saveTotalDistance, removeItem, notifyObservers
ResetStore(after, st) ==
    Notified(after, removeTouchLog(after, saveTotalDistance(after, st)))

\* reset: [tracker, store, calls, thrown] after the call
reset(tk, st) == ResetStore(ResetFields(tk), st)

\* config.mode || "visualization"
ModeOfDefaultVisualization(config) ==
    IF config.mode # "" THEN config.mode ELSE "visualization"

\* config.mode || "production"
ModeOf(config) == IF config.mode # "" THEN config.mode ELSE "production"

\* the fields after the constructor's assignments, given the generated key
Fresh(config, defaultStorageKey) ==
    [mode |-> ModeOf(config),
     dpi |-> IF config.dpi # 0 THEN config.dpi ELSE DefaultDpi,
     storageKey |-> IF config.storageKey # "" THEN config.storageKey
                    ELSE defaultStorageKey,
     touchLogKey |-> IF config.touchLogKey # "" THEN config.touchLogKey
                     ELSE defaultStorageKey \o "-touch-log",
     lastTouchPosition |-> <<>>,
     totalDistance |-> 0,
     points |-> <<>>,
     lines |-> <<>>,
     observers |-> <<>>]

\* the constructor; an absent option is "" (a string) or 0 (dpi)
constructor(config, st) ==
    loadTotalDistance(Fresh(config, generateDefaultStorageKey(st)), st)

(***************************************************************************)
(* Inputs                                                                  *)
(***************************************************************************)
\* the configurations a tracker is constructed with
Configs ==
    {[mode |-> "", dpi |-> 0, storageKey |-> "", touchLogKey |-> ""],
     [mode |-> "visualization", dpi |-> 127, storageKey |-> "", touchLogKey |-> ""],
     [mode |-> "visualization", dpi |-> 96, storageKey |-> "app", touchLogKey |-> ""],
     [mode |-> "production", dpi |-> 127, storageKey |-> "app", touchLogKey |-> "app-log"]}

\* the pointer events, each with the value Date.now() returns while it is handled
Touches ==
    {[clientX |-> 0, clientY |-> 0, now |-> 0],
     [clientX |-> 1, clientY |-> 1, now |-> 0],
     [clientX |-> 3, clientY |-> 4, now |-> 1]}

\* the observer objects
Observers == {"oAll", "oPts"}

EmptyStore == [k \in {} |-> <<>>]

\* what earlier trackers can have left in the store
InitStores ==
    {EmptyStore,
     [k \in {"totalDistance-01"} |-> NumberToString(1323)],
     [k \in {"app"} |-> NumberToString(2500)]}

\* content written by other code: an empty string, text that is no number
ForeignStores ==
    {[k \in {"totalDistance-01"} |-> <<>>],
     [k \in {"app"} |-> <<"a", "b", "c">>],
     [k \in {"totalDistance-01-touch-log"} |-> <<"a", "b", "c">>]}

(***************************************************************************)
(* The state machine                                                       *)
(***************************************************************************)
InitWith(stores) ==
    /\ store \in stores
    /\ trackers = <<>>
    /\ calls = <<>>
    /\ thrown = ""
    /\ loaded = <<>>
    /\ saved = [k \in {} |-> 0]
    /\ removed = <<>>
    /\ ops = 0

Init == InitWith(InitStores)

InitAny == InitWith(InitStores \cup ForeignStores)

\* the history of saved numbers, cut down to the keys still in store st
SavedIn(sv, st) == [k \in DOMAIN sv \cap DOMAIN st |-> sv[k]]

\* the history of saved numbers once number n was written under key
SavedPut(sv, key, n) == [k \in DOMAIN sv \cup {key} |-> IF k = key THEN n ELSE sv[k]]

\* one more operation of the behaviour, of at most MaxOps
Counted == ops < MaxOps /\ ops' = ops + 1

\* the page holds one more tracker, tk, just constructed
Constructed(tk) ==
    /\ trackers' = Append(trackers, tk)
    /\ loaded' = Append(loaded, Truthy(store, tk.storageKey))
    /\ removed' = Append(removed, {})

\* new TouchDistanceTracker(config), the first tracker of the page
Construct(config) ==
    /\ Counted
    /\ trackers = <<>>
    /\ Constructed(constructor(config, store))
    /\ calls' = <<>>
    /\ thrown' = ""
    /\ UNCHANGED <<store, saved>>

\* new TouchDistanceTracker(config) while the first tracker of the page is live
ConstructSecond(config) ==
    /\ Counted
    /\ Len(trackers) = 1
    /\ Constructed(constructor(config, store))
    /\ calls' = <<>>
    /\ thrown' = ""
    /\ UNCHANGED <<store, saved>>

\* the page is loaded again: the live trackers are dropped, the store stays
Reload ==
    /\ Counted
    /\ trackers # <<>>
    /\ trackers' = <<>>
    /\ loaded' = <<>>
    /\ removed' = <<>>
    /\ calls' = <<>>
    /\ thrown' = ""
    /\ UNCHANGED <<store, saved>>

\* tracker i and the store become what the call returned in r
Returned(i, r) ==
    /\ trackers' = [trackers EXCEPT ![i] = r.tracker]
    /\ store' = r.store
    /\ calls' = r.calls
    /\ thrown' = r.thrown

\* tracker i's handleTouch({clientX, clientY}) when Date.now() returns now
HandleTouch(i, touch) ==
    /\ Counted
    /\ Returned(i, handleTouch(trackers[i], store,
                               touch.clientX, touch.clientY, touch.now))
    /\ saved' = IF thrown' \in {"", "ObserverError"} /\ trackers[i].lastTouchPosition # <<>>
                THEN SavedIn(SavedPut(saved, trackers[i].storageKey,
                                      trackers'[i].totalDistance), store')
                ELSE saved
    /\ UNCHANGED <<loaded, removed>>

\* tracker i's reset()
Reset(i) ==
    /\ Counted
    /\ Returned(i, reset(trackers[i], store))
    /\ saved' = SavedIn(SavedPut(saved, trackers[i].storageKey, 0), store')
    /\ loaded' = [loaded EXCEPT ![i] = FALSE]
    /\ UNCHANGED removed

\* tracker i's removeStorage()
RemoveStorage(i) ==
    /\ Counted
    /\ store' = removeStorage(trackers[i], store)
    /\ saved' = SavedIn(saved, store')
    /\ calls' = <<>>
    /\ thrown' = ""
    /\ UNCHANGED <<trackers, loaded, removed>>

\* tracker i's addObserver(observer)
AddObserver(i, observer) ==
    /\ Counted
    /\ trackers' = [trackers EXCEPT ![i] = addObserver(@, observer)]
    /\ removed' = [removed EXCEPT ![i] = @ \ {observer}]
    /\ calls' = <<>>
    /\ thrown' = ""
    /\ UNCHANGED <<store, loaded, saved>>

\* tracker i's removeObserver(observer)
RemoveObserver(i, observer) ==
    /\ Counted
    /\ trackers' = [trackers EXCEPT ![i] = removeObserver(@, observer)]
    /\ removed' = [removed EXCEPT ![i] = @ \cup {observer}]
    /\ calls' = <<>>
    /\ thrown' = ""
    /\ UNCHANGED <<store, loaded, saved>>

\* one operation of the page
Next ==
    \/ \E config \in Configs : Construct(config)
    \/ Reload
    \/ \E i \in 1..Len(trackers), touch \in Touches : HandleTouch(i, touch)
    \/ \E i \in 1..Len(trackers) : Reset(i)
    \/ \E i \in 1..Len(trackers) : RemoveStorage(i)
    \/ \E i \in 1..Len(trackers), observer \in Observers : AddObserver(i, observer)
    \/ \E i \in 1..Len(trackers), observer \in Observers : RemoveObserver(i, observer)

Spec == Init /\ [][Next]_vars

SpecAny == InitAny /\ [][Next]_vars

\* getPoints(): the caller holds [...this.points]
GetPoints(i) ==
    /\ Counted
    /\ calls' = <<[observer |-> "caller", callback |-> "getPoints",
                   arg |-> trackers[i].points]>>
    /\ thrown' = ""
    /\ UNCHANGED <<store, trackers, loaded, saved, removed>>

\* getLines(): the caller holds [...this.lines]
GetLines(i) ==
    /\ Counted
    /\ calls' = <<[observer |-> "caller", callback |-> "getLines",
                   arg |-> trackers[i].lines]>>
    /\ thrown' = ""
    /\ UNCHANGED <<store, trackers, loaded, saved, removed>>

\* what was handed out is a copy of this.points, of this.lines
IsPoints(call) == call.callback \in {"onPointsUpdated", "getPoints"}

IsLines(call) == call.callback \in {"onLinesUpdated", "getLines"}

\* the holder of the sequence handed out in calls[c] pops its last element: the
\* sequence is a new array ([...this.points], [...this.lines]), not the tracker's
MutateSequence(c) ==
    /\ Counted
    /\ IsPoints(calls[c]) \/ IsLines(calls[c])
    /\ calls[c].arg # <<>>
    /\ calls' = [calls EXCEPT ![c].arg = SubSeq(@, 1, Len(@) - 1)]
    /\ thrown' = ""
    /\ UNCHANGED <<store, trackers, loaded, saved, removed>>

\* the point object at index k gets x = v: it is the one object in this.points,
\* in every copy handed out and, for the newest point, in this.lastTouchPosition
\* (points.push(newPoint); this.lastTouchPosition = newPoint)
WritePoint(tk, k, v) ==
    [tk EXCEPT !.points[k].x = v,
               !.lastTouchPosition = IF k = Len(tk.points)
                                     THEN <<[tk.points[k] EXCEPT !.x = v]>>
                                     ELSE @]

\* the line object at index k gets distance = v: it is the one object in
\* this.lines and in every copy handed out
WriteLine(tk, k, v) == [tk EXCEPT !.lines[k].distance = v]

\* the copies of this.points handed out, after the write to the point at index k
PointCopies(k, v) ==
    [d \in 1..Len(calls) |->
        IF IsPoints(calls[d]) /\ k <= Len(calls[d].arg)
        THEN [calls[d] EXCEPT !.arg[k].x = v] ELSE calls[d]]

\* the copies of this.lines handed out, after the write to the line at index k
LineCopies(k, v) ==
    [d \in 1..Len(calls) |->
        IF IsLines(calls[d]) /\ k <= Len(calls[d].arg)
        THEN [calls[d] EXCEPT !.arg[k].distance = v] ELSE calls[d]]

\* the holder of the sequence handed out in calls[c] by tracker i writes v to a
\* field of its record k (x of a point, distance of a line)
MutateRecord(i, c, k, v) ==
    /\ Counted
    /\ IsPoints(calls[c]) \/ IsLines(calls[c])
    /\ k \in 1..Len(calls[c].arg)
    /\ trackers' = [trackers EXCEPT ![i] = IF IsPoints(calls[c])
                                            THEN WritePoint(@, k, v)
                                            ELSE WriteLine(@, k, v)]
    /\ calls' = IF IsPoints(calls[c]) THEN PointCopies(k, v) ELSE LineCopies(k, v)
    /\ thrown' = ""
    /\ UNCHANGED <<store, loaded, saved, removed>>

\* the values a holder writes
Written == {2}

\* one operation of a page whose observers and callers write to what they receive
NextMutate ==
    \/ \E config \in Configs : Construct(config)
    \/ \E i \in 1..Len(trackers), touch \in Touches : HandleTouch(i, touch)
    \/ \E i \in 1..Len(trackers), observer \in Observers : AddObserver(i, observer)
    \/ \E i \in 1..Len(trackers) : GetPoints(i)
    \/ \E i \in 1..Len(trackers) : GetLines(i)
    \/ \E c \in 1..Len(calls) : MutateSequence(c)
    \/ \E i \in 1..Len(trackers), c \in 1..Len(calls), k \in 1..MaxOps, v \in Written :
          MutateRecord(i, c, k, v)

SpecMutate == Init /\ [][NextMutate]_vars


\* the observer objects with a callback that throws
Throwing == {"oThrow"}

\* the observer objects with a callback that calls removeObserver or addObserver
Reentrant == {"oRemover", "oAdder"}

\* one operation of a page some of whose observers change the registrations
\* while they are notified
NextRound ==
    \/ \E config \in Configs : Construct(config)
    \/ \E i \in 1..Len(trackers), touch \in Touches : HandleTouch(i, touch)
    \/ \E i \in 1..Len(trackers) : Reset(i)
    \/ \E i \in 1..Len(trackers), observer \in Observers \cup Reentrant :
          AddObserver(i, observer)

SpecRound == Init /\ [][NextRound]_vars

\* one operation of a page some of whose observers throw
NextThrow ==
    \/ \E config \in Configs : Construct(config)
    \/ \E i \in 1..Len(trackers), touch \in Touches : HandleTouch(i, touch)
    \/ \E i \in 1..Len(trackers) : Reset(i)
    \/ \E i \in 1..Len(trackers), observer \in Observers \cup Throwing :
          AddObserver(i, observer)

SpecThrow == Init /\ [][NextThrow]_vars

\* the configurations of a page with two trackers: one more storage key
TwoConfigs ==
    Configs \cup {[mode |-> "visualization", dpi |-> 96, storageKey |-> "web",
                   touchLogKey |-> ""]}

\* one operation of a page that constructs two trackers on its store
NextTwo ==
    \/ \E config \in Configs : Construct(config)
    \/ \E config \in TwoConfigs : ConstructSecond(config)
    \/ \E i \in 1..Len(trackers), touch \in Touches : HandleTouch(i, touch)
    \/ \E i \in 1..Len(trackers) : Reset(i)
    \/ \E i \in 1..Len(trackers) : RemoveStorage(i)

SpecTwo == Init /\ [][NextTwo]_vars

(***************************************************************************)
(* Properties                                                              *)
(***************************************************************************)
Live == 1..Len(trackers)

Max(a, b) == IF a >= b THEN a ELSE b

RECURSIVE SumDistances(_)
\* the sum of distance over lines, added in order from 0
SumDistances(lines) ==
    IF lines = <<>> THEN 0
    ELSE Add(SumDistances(SubSeq(lines, 1, Len(lines) - 1)), lines[Len(lines)].distance)

\* the entry under key is the same in both stores (absent in both, or equal)
SameItem(st, st2, key) ==
    /\ HasItem(st, key) <=> HasItem(st2, key)
    /\ HasItem(st, key) => st[key] = st2[key]

\* C1: in every reachable state the number of lines of a tracker equals
\* max(number of points - 1, 0).
C1_LinesCount ==
    \A i \in Live :
        Len(trackers[i].lines) = Max(Len(trackers[i].points) - 1, 0)

\* three points and two lines recorded
C1_Witness ==
    \E i \in Live : Len(trackers[i].points) = 3 /\ Len(trackers[i].lines) = 2

\* C2 as stated: in every reachable state totalDistance equals the sum of
\* distance over the recorded lines, whatever the store held at construction.
C2_TotalIsSum ==
    \A i \in Live : trackers[i].totalDistance = SumDistances(trackers[i].lines)

\* C2, amended: totalDistance equals the sum of distance over the recorded lines
\* in every reachable state of a tracker whose constructor read no total from
\* the store (the entry was absent or empty) or that has been reset since.
C2_TotalIsSumUnlessLoaded ==
    \A i \in Live :
        ~loaded[i] => trackers[i].totalDistance = SumDistances(trackers[i].lines)

\* two lines of positive length, summed
C2_Witness ==
    \E i \in Live :
        /\ ~loaded[i]
        /\ Len(trackers[i].lines) = 2
        /\ trackers[i].lines[1].distance > 0
        /\ trackers[i].lines[2].distance > 0
        /\ trackers[i].totalDistance
              = trackers[i].lines[1].distance + trackers[i].lines[2].distance

\* C3: handleTouch(x, y) with a previous position (px, py) adds
\* sqrt((x-px)^2 + (y-py)^2) * 25.4 / dpi to totalDistance, appends exactly the
\* line {px, py, x, y, that amount} and overwrites the persisted total with the
\* new totalDistance.
C3_TouchWithPrevious ==
    [][\A i \in Live, touch \in Touches :
         (HandleTouch(i, touch) /\ trackers[i].lastTouchPosition # <<>>) =>
            LET tk == trackers[i]
                prev == tk.lastTouchPosition[1]
                dx == touch.clientX - prev.x
                dy == touch.clientY - prev.y
                mm == RoundDiv(Sqrt(dx * dx + dy * dy) * 254, 10 * tk.dpi)
            IN  /\ trackers'[i].totalDistance = Add(tk.totalDistance, mm)
                /\ trackers'[i].lines
                      = Append(tk.lines, [x1 |-> prev.x, y1 |-> prev.y,
                                          x2 |-> touch.clientX, y2 |-> touch.clientY,
                                          distance |-> mm])
                /\ HasItem(store', tk.storageKey)
                /\ store'[tk.storageKey] = NumberToString(trackers'[i].totalDistance)
      ]_vars

\* (0,0) then (1,1) at dpi 127 on a tracker that started from 0: one line of
\* sqrt(2) * 25.4 / 127 mm = 0.283 mm, persisted as "0.283"
C3_Witness ==
    \E i \in Live :
        /\ trackers[i].dpi = 127
        /\ trackers[i].points = <<[x |-> 0, y |-> 0], [x |-> 1, y |-> 1]>>
        /\ Len(trackers[i].lines) = 1
        /\ trackers[i].totalDistance = 283
        /\ HasItem(store, trackers[i].storageKey)
        /\ store[trackers[i].storageKey] = <<"0", ".", "2", "8", "3">>

\* C4: handleTouch without a previous position (the first touch after
\* construction or after reset) appends exactly one point, creates no line and
\* leaves totalDistance and the persisted total entry unchanged; on a tracker
\* whose key was unused this gives 1 point, 0 lines and a total of 0.
C4_FirstTouch ==
    [][/\ \A i \in Live, touch \in Touches :
            (HandleTouch(i, touch) /\ trackers[i].lastTouchPosition = <<>>) =>
               /\ trackers'[i].points
                     = Append(trackers[i].points,
                              [x |-> touch.clientX, y |-> touch.clientY])
               /\ trackers'[i].lines = trackers[i].lines
               /\ trackers'[i].totalDistance = trackers[i].totalDistance
               /\ SameItem(store, store', trackers[i].storageKey)
               /\ (~loaded[i] =>
                      /\ Len(trackers'[i].points) = 1
                      /\ Len(trackers'[i].lines) = 0
                      /\ trackers'[i].totalDistance = 0)
       /\ \A config \in Configs :
            Construct(config) => trackers'[1].lastTouchPosition = <<>>
       /\ \A i \in Live :
            Reset(i) => trackers'[i].lastTouchPosition = <<>>
      ]_vars

\* one point, no line, total 0, nothing persisted under the tracker's key
C4_Witness ==
    \E i \in Live :
        /\ Len(trackers[i].points) = 1
        /\ trackers[i].lines = <<>>
        /\ trackers[i].totalDistance = 0
        /\ ~HasItem(store, trackers[i].storageKey)
        /\ HasItem(store, trackers[i].touchLogKey)

\* C5: reset() leaves totalDistance 0, points and lines empty and the last
\* position absent, writes the zeroed total to the persisted total entry and
\* removes the persisted log, so that getTouchLog() then returns the empty log.
C5_Reset ==
    [][\A i \in Live :
         Reset(i) =>
            /\ trackers'[i].totalDistance = 0
            /\ trackers'[i].points = <<>>
            /\ trackers'[i].lines = <<>>
            /\ trackers'[i].lastTouchPosition = <<>>
            /\ HasItem(store', trackers[i].storageKey)
            /\ store'[trackers[i].storageKey] = <<"0">>
            /\ ~HasItem(store', trackers[i].touchLogKey)
            /\ getTouchLog(trackers'[i], store')
                  = [thrown |-> "", kind |-> "array", value |-> <<>>]
      ]_vars

\* a reset tracker: "0" persisted and no log, where the log had entries before
\* (a step of reset from a state with a line is what reaches it with ops >= 4)
C5_Witness ==
    \E i \in Live :
        /\ ops >= 4
        /\ trackers[i].points = <<>>
        /\ trackers[i].totalDistance = 0
        /\ HasItem(store, trackers[i].storageKey)
        /\ store[trackers[i].storageKey] = <<"0">>
        /\ ~HasItem(store, trackers[i].touchLogKey)

\* C6: a tracker constructed with storage key k, after earlier trackers saved
\* under k, starts with totalDistance equal to the number last saved under k,
\* and with no points and no lines.
C6_RestoresSaved ==
    [][\A config \in Configs :
         (Construct(config) /\ trackers'[1].storageKey \in DOMAIN saved) =>
            /\ trackers'[1].totalDistance = saved[trackers'[1].storageKey]
            /\ trackers'[1].points = <<>>
            /\ trackers'[1].lines = <<>>
      ]_vars

\* a new tracker that starts on a saved total with a fraction
C6_Witness ==
    \E i \in Live :
        /\ loaded[i]
        /\ trackers[i].storageKey \in DOMAIN saved
        /\ trackers[i].totalDistance = saved[trackers[i].storageKey]
        /\ trackers[i].totalDistance % Scale # 0
        /\ trackers[i].points = <<>>

AllCallbacks == {"onPointsUpdated", "onLinesUpdated", "onTotalDistanceUpdated"}

\* the number of invocations of callback cb of observer o in cs
CountCalls(cs, o, cb) ==
    Cardinality({k \in 1..Len(cs) : cs[k].observer = o /\ cs[k].callback = cb})

\* the number of registrations of observer o in obs
CountIn(obs, o) == Cardinality({k \in 1..Len(obs) : obs[k] = o})

\* C7: in visualization mode every handleTouch, the first touch included,
\* invokes each of the three callbacks exactly once per registration of every
\* observer that implements all three.
C7_NotifiesOnTouch ==
    [][\A i \in Live, touch \in Touches :
         (HandleTouch(i, touch) /\ trackers[i].mode = "visualization") =>
            \A o \in Observers :
                Implements(o) = AllCallbacks =>
                    \A cb \in AllCallbacks :
                        CountCalls(calls', o, cb) = CountIn(trackers[i].observers, o)
      ]_vars

\* the first touch of a visualization tracker with one full observer: three calls
C7_Witness ==
    \E i \in Live :
        /\ trackers[i].mode = "visualization"
        /\ trackers[i].observers = <<"oAll">>
        /\ Len(trackers[i].points) = 1
        /\ Len(calls) = 3
        /\ \A cb \in AllCallbacks : CountCalls(calls, "oAll", cb) = 1

\* C8: a tracker constructed with mode "production" or with no mode is in
\* production mode, and no operation on a production tracker invokes a callback.
C8_ProductionSilent ==
    [][/\ \A config \in Configs :
            (Construct(config) /\ config.mode \in {"", "production"}) =>
                trackers'[1].mode = "production"
       /\ \A i \in 1..Len(trackers') :
            trackers'[i].mode = "production" => calls' = <<>>
      ]_vars

\* a production tracker that handled a touch with an observer registered
C8_Witness ==
    \E i \in Live :
        /\ trackers[i].mode = "production"
        /\ trackers[i].observers # <<>>
        /\ trackers[i].points # <<>>
        /\ calls = <<>>

\* C9: an observer that was removed (and not added again) is registered no
\* more, however often it had been added, and no operation invokes a callback
\* of it; removeObserver keeps the other registrations in order, and every
\* handleTouch and reset of a visualization tracker invokes, for every
\* observer, each callback it implements once per registration.
C9_RemovedObserver ==
    [][/\ \A i \in 1..Len(trackers') :
            \A o \in removed'[i] :
                /\ CountIn(trackers'[i].observers, o) = 0
                /\ \A cb \in AllCallbacks : CountCalls(calls', o, cb) = 0
       /\ \A i \in Live, o \in Observers :
            RemoveObserver(i, o) =>
                trackers'[i].observers
                    = SelectSeq(trackers[i].observers, LAMBDA p : p # o)
       /\ \A i \in Live :
            (((\E touch \in Touches : HandleTouch(i, touch)) \/ Reset(i))
                /\ trackers[i].mode = "visualization") =>
                \A p \in Observers, cb \in AllCallbacks :
                    CountCalls(calls', p, cb)
                        = IF cb \in Implements(p)
                          THEN CountIn(trackers[i].observers, p) ELSE 0
      ]_vars

\* after removeObserver("oAll") a touch notifies "oPts", still registered, alone
C9_Witness ==
    \E i \in Live :
        /\ "oAll" \in removed[i]
        /\ trackers[i].observers = <<"oPts">>
        /\ calls = <<[observer |-> "oPts", callback |-> "onPointsUpdated",
                      arg |-> trackers[i].points]>>
        /\ trackers[i].points # <<>>

\* the smallest N >= 1 whose key totalDistance-NN has no entry in store st
SmallestAbsent(st) ==
    CHOOSE n \in 1..(Cardinality(DOMAIN st) + 1) :
        /\ ~HasItem(st, DefaultKey(n))
        /\ \A m \in 1..(n - 1) : HasItem(st, DefaultKey(m))

\* C10: a tracker constructed without storage keys gets the key totalDistance-NN
\* with the smallest N >= 1 whose entry does not exist in the store, and the log
\* key that key suffixed with -touch-log; the key is not present in the store,
\* and constructing writes nothing to the store.
C10_DefaultKey ==
    [][\A config \in Configs :
         (Construct(config) /\ config.storageKey = "" /\ config.touchLogKey = "") =>
            /\ trackers'[1].storageKey = DefaultKey(SmallestAbsent(store))
            /\ trackers'[1].touchLogKey = trackers'[1].storageKey \o "-touch-log"
            /\ ~HasItem(store, trackers'[1].storageKey)
            /\ store' = store
      ]_vars


\* the tracker was constructed without storageConfig: both keys were generated
WithoutStorageConfig(tk) ==
    /\ tk.storageKey \notin {config.storageKey : config \in TwoConfigs}
    /\ tk.touchLogKey \notin {config.touchLogKey : config \in TwoConfigs}

\* C11: two trackers constructed on the same store without storageConfig have
\* different storageKey and different touchLogKey, whatever was done with the
\* first (nothing, handleTouch, reset, removeStorage) before the second was
\* constructed.
C11_UniqueKeys ==
    \A i, j \in Live :
        (i < j /\ WithoutStorageConfig(trackers[i]) /\ WithoutStorageConfig(trackers[j]))
            => /\ trackers[i].storageKey # trackers[j].storageKey
               /\ trackers[i].touchLogKey # trackers[j].touchLogKey

\* C12: removeStorage() removes both the persisted total entry and the persisted
\* log entry of the tracker, leaves totalDistance, points, lines, the last
\* position and the observer list unchanged, and invokes no observer.
C12_RemoveStorage ==
    [][\A i \in Live :
         RemoveStorage(i) =>
            /\ ~HasItem(store', trackers[i].storageKey)
            /\ ~HasItem(store', trackers[i].touchLogKey)
            /\ trackers'[i] = trackers[i]
            /\ calls' = <<>>
            /\ thrown' = ""
      ]_vars

\* a notifying tracker with an observer, two points and a line (so that both
\* entries were written) whose two entries are gone
C12_Witness ==
    \E i \in Live :
        /\ trackers[i].mode = "visualization"
        /\ trackers[i].observers # <<>>
        /\ Len(trackers[i].points) = 2
        /\ trackers[i].totalDistance > 0
        /\ ~HasItem(store, trackers[i].storageKey)
        /\ ~HasItem(store, trackers[i].touchLogKey)

\* the entry under key is absent, or is no text parseFloat reads a number from
NoNumberAt(st, key) == ~HasItem(st, key) \/ IsNaN(ParseFloat(st[key]))

\* the entry under key is absent, or is no text JSON.parse accepts
NoLogAt(st, key) == ~HasItem(st, key) \/ JSONparse(st[key]).kind = "SyntaxError"

\* C13: malformed or absent persisted data is never surfaced as an error: a
\* persisted total that is absent or not parsable as a number leaves
\* totalDistance at 0 after construction, a persisted log that is absent or not
\* parsable makes getTouchLog() return the empty sequence, and construction,
\* handleTouch and getTouchLog raise no error.
C13_MalformedMasked ==
    /\ [](/\ thrown = ""
          /\ \A i \in Live :
                /\ getTouchLog(trackers[i], store).thrown = ""
                /\ NoLogAt(store, trackers[i].touchLogKey)
                      => getTouchLog(trackers[i], store).value = <<>>)
    /\ [][\A config \in Configs :
            Construct(config) =>
               (NoNumberAt(store, trackers'[1].storageKey)
                   => trackers'[1].totalDistance = 0)
         ]_vars

\* a holder of a sequence handed out writes to it or to a record in it
Mutation ==
    \/ \E c \in 1..Len(calls) : MutateSequence(c)
    \/ \E i \in Live, c \in 1..Len(calls), k \in 1..MaxOps, v \in Written :
          MutateRecord(i, c, k, v)

\* C14: whatever an observer does to the points and lines sequences it receives
\* and to the point and line records in them (and a caller to the results of
\* getPoints/getLines), the tracker's points, lines, last position and
\* totalDistance stay as they were, so that every later handleTouch gives the
\* same result.
C14_CopiesDefend ==
    [][Mutation =>
          \A i \in Live :
             /\ trackers'[i].points = trackers[i].points
             /\ trackers'[i].lines = trackers[i].lines
             /\ trackers'[i].lastTouchPosition = trackers[i].lastTouchPosition
             /\ trackers'[i].totalDistance = trackers[i].totalDistance
      ]_vars

RECURSIVE FirstThrowing(_, _)
\* the index from n on of the first observer of obs with a callback that throws
\* (0: none)
FirstThrowing(obs, n) ==
    IF n > Len(obs) THEN 0
    ELSE IF obs[n] \in Throwing THEN n
    ELSE FirstThrowing(obs, n + 1)

RECURSIVE CountCallbacks(_, _)
\* the number of callbacks the first n observers of obs implement
CountCallbacks(obs, n) ==
    IF n = 0 THEN 0
    ELSE CountCallbacks(obs, n - 1) + Cardinality(Implements(obs[n]))

\* the callbacks cs are those of the observers registered before the first
\* throwing one, the t-th, followed by that observer's callbacks up to the one
\* that throws, each with the copies of the state of tracker tk
StoppedAtThrow(tk, cs, t) ==
    /\ cs # <<>>
    /\ Throws(cs[Len(cs)])
    /\ \A c \in 1..(Len(cs) - 1) : ~Throws(cs[c])
    /\ Len(cs) = CountCallbacks(tk.observers, t - 1) + 2
    /\ \A c \in 1..Len(cs) :
          /\ \E n \in 1..t : cs[c].observer = tk.observers[n]
          /\ cs[c].callback = "onPointsUpdated" => cs[c].arg = tk.points
          /\ cs[c].callback = "onLinesUpdated" => cs[c].arg = tk.lines
          /\ cs[c].callback = "onTotalDistanceUpdated" => cs[c].arg = tk.totalDistance

\* tracker tk2 and store st2 are tracker tk after the state change of
\* handleTouch(touch): the new point, and with a previous position the new line
\* and the raised, persisted total
TouchApplied(tk, tk2, st2, touch) ==
    /\ tk2.points = Append(tk.points, [x |-> touch.clientX, y |-> touch.clientY])
    /\ tk2.lastTouchPosition = <<[x |-> touch.clientX, y |-> touch.clientY]>>
    /\ IF tk.lastTouchPosition = <<>>
       THEN tk2.lines = tk.lines /\ tk2.totalDistance = tk.totalDistance
       ELSE /\ Len(tk2.lines) = Len(tk.lines) + 1
            /\ SubSeq(tk2.lines, 1, Len(tk.lines)) = tk.lines
            /\ tk2.lines[Len(tk2.lines)].x2 = touch.clientX
            /\ tk2.lines[Len(tk2.lines)].y2 = touch.clientY
            /\ tk2.totalDistance
                  = Add(tk.totalDistance, tk2.lines[Len(tk2.lines)].distance)
            /\ HasItem(st2, tk.storageKey)
            /\ st2[tk.storageKey] = NumberToString(tk2.totalDistance)

\* tracker tk2 and store st2 are in the reset state
ResetApplied(tk2, st2) ==
    /\ tk2.points = <<>>
    /\ tk2.lines = <<>>
    /\ tk2.lastTouchPosition = <<>>
    /\ tk2.totalDistance = 0
    /\ HasItem(st2, tk2.storageKey)
    /\ st2[tk2.storageKey] = <<"0">>
    /\ ~HasItem(st2, tk2.touchLogKey)

\* C15: in visualization mode, when an observer callback throws during
\* handleTouch or reset, the exception propagates to the caller, no observer
\* registered after the throwing one is notified for that event, and the state
\* change of the call (new point, new line, updated and persisted total, or the
\* reset state) has been applied and stays applied.
C15_ObserverThrows ==
    [][\A i \in Live :
         (/\ trackers[i].mode = "visualization"
          /\ FirstThrowing(trackers[i].observers, 1) # 0) =>
            /\ \A touch \in Touches :
                  HandleTouch(i, touch) =>
                     /\ thrown' = "ObserverError"
                     /\ StoppedAtThrow(trackers'[i], calls',
                                       FirstThrowing(trackers[i].observers, 1))
                     /\ TouchApplied(trackers[i], trackers'[i], store', touch)
            /\ Reset(i) =>
                  /\ thrown' = "ObserverError"
                  /\ StoppedAtThrow(trackers'[i], calls',
                                    FirstThrowing(trackers[i].observers, 1))
                  /\ ResetApplied(trackers'[i], store')
      ]_vars

\* the second handleTouch of a tracker whose first observer throws and whose
\* second does not: the line and the total are there, the second observer was
\* not notified
C15_Witness ==
    \E i \in Live :
        /\ thrown = "ObserverError"
        /\ trackers[i].observers = <<"oThrow", "oAll">>
        /\ Len(trackers[i].points) = 2
        /\ Len(trackers[i].lines) = 1
        /\ trackers[i].totalDistance > 0
        /\ HasItem(store, trackers[i].storageKey)
        /\ Len(calls) = 2

\* a >= b on numbers (false when either is NaN)
Geq(a, b) == ~IsNaN(a) /\ ~IsNaN(b) /\ a >= b

\* C16: totalDistance is monotonically non-decreasing while not reset: every
\* step of a tracker other than reset() (handleTouch, removeStorage,
\* addObserver, removeObserver) leaves totalDistance greater than or equal to
\* its value before the step.
C16_Monotonic ==
    [][\A i \in Live :
         (\/ \E touch \in Touches : HandleTouch(i, touch)
          \/ RemoveStorage(i)
          \/ \E observer \in Observers : AddObserver(i, observer)
          \/ \E observer \in Observers : RemoveObserver(i, observer))
            => Geq(trackers'[i].totalDistance, trackers[i].totalDistance)
      ]_vars

\* a total restored from the store that a line has raised
C16_Witness ==
    \E i \in Live :
        /\ loaded[i]
        /\ Len(trackers[i].lines) = 1
        /\ trackers[i].lines[1].distance > 0
        /\ trackers[i].totalDistance > trackers[i].lines[1].distance

\* line k of the tracker is the segment from its point k to its point k + 1
JoinsPoints(tk, k) ==
    /\ k + 1 <= Len(tk.points)
    /\ tk.lines[k].x1 = tk.points[k].x
    /\ tk.lines[k].y1 = tk.points[k].y
    /\ tk.lines[k].x2 = tk.points[k + 1].x
    /\ tk.lines[k].y2 = tk.points[k + 1].y

\* sequence a is sequence b without its last elements
IsPrefix(a, b) == Len(a) <= Len(b) /\ SubSeq(b, 1, Len(a)) = a

\* C17: in every reachable state, for every index k of lines, lines[k] starts
\* at points[k] and ends at points[k+1]; each line is created exactly once, by
\* the handleTouch that appended its end point (a step that is no reset keeps
\* the lines there are, and only a handleTouch that appends a point adds a line,
\* and just one).
C17_LinesJoinPoints ==
    /\ [](\A i \in Live : \A k \in 1..Len(trackers[i].lines) : JoinsPoints(trackers[i], k))
    /\ [][\A i \in Live :
            (Len(trackers') = Len(trackers) /\ ~Reset(i)) =>
               /\ IsPrefix(trackers[i].lines, trackers'[i].lines)
               /\ Len(trackers'[i].lines) <= Len(trackers[i].lines) + 1
               /\ Len(trackers'[i].lines) = Len(trackers[i].lines) + 1
                     => /\ \E touch \in Touches : HandleTouch(i, touch)
                        /\ Len(trackers'[i].points) = Len(trackers[i].points) + 1
         ]_vars

\* three different points and the two segments between them
C17_Witness ==
    \E i \in Live :
        /\ Len(trackers[i].points) = 3
        /\ Len(trackers[i].lines) = 2
        /\ trackers[i].points[1] # trackers[i].points[2]
        /\ trackers[i].points[2] # trackers[i].points[3]
        /\ JoinsPoints(trackers[i], 2)

\* the coordinates of the entries of a log, as points
Coordinates(log) == [k \in 1..Len(log) |-> [x |-> log[k].x, y |-> log[k].y]]

\* sequence a is the end of sequence b
IsSuffix(a, b) == Len(a) <= Len(b) /\ SubSeq(b, Len(b) - Len(a) + 1, Len(b)) = a

\* C18: every handleTouch call, with or without a previous position and in
\* either mode, appends exactly one entry {x, y, time_millis} with the event's
\* coordinates at the end of the persisted log and keeps the entries already
\* there unchanged and in order; reset and removeStorage empty the log; so the
\* coordinates getTouchLog() returns and the points recorded since are the same
\* events in the same order (the shorter sequence is the end of the longer).
C18_LogAppends ==
    /\ [][\A i \in Live :
            /\ \A touch \in Touches :
                  HandleTouch(i, touch) =>
                     getTouchLog(trackers'[i], store')
                        = [thrown |-> "", kind |-> "array",
                           value |-> Append(getTouchLog(trackers[i], store).value,
                                            [x |-> touch.clientX, y |-> touch.clientY,
                                             time_millis |-> touch.now])]
            /\ (Reset(i) \/ RemoveStorage(i)) =>
                  getTouchLog(trackers'[i], store')
                     = [thrown |-> "", kind |-> "array", value |-> <<>>]
         ]_vars
    /\ [](\A i \in Live :
             \/ IsSuffix(Coordinates(getTouchLog(trackers[i], store).value),
                         trackers[i].points)
             \/ IsSuffix(trackers[i].points,
                         Coordinates(getTouchLog(trackers[i], store).value)))

\* a production tracker whose log holds its two touches, in call order
C18_Witness ==
    \E i \in Live :
        /\ trackers[i].mode = "production"
        /\ Len(trackers[i].points) = 2
        /\ trackers[i].points[1] # trackers[i].points[2]
        /\ Coordinates(getTouchLog(trackers[i], store).value) = trackers[i].points

\* the tracker in the same state, in the other mode
OtherMode(tk) ==
    [tk EXCEPT !.mode = IF @ = "visualization" THEN "production" ELSE "visualization"]

\* two trackers equal in every field but mode
SameButMode(a, b) == [a EXCEPT !.mode = ""] = [b EXCEPT !.mode = ""]

\* the call that gave tracker tk2 and store st2 gives result r on the tracker in
\* the other mode: the same fields, the same store, the same exception
SameOutcome(r, tk2, st2) ==
    /\ SameButMode(r.tracker, tk2)
    /\ r.tracker.mode # tk2.mode
    /\ r.store = st2
    /\ r.thrown = thrown'

\* C19: mode affects only notification: a tracker and a tracker that differs
\* from it only in mode, on equal stores, are again equal in totalDistance,
\* points, lines, last position and in the persisted total and log after
\* construction and after every handleTouch, reset and removeStorage (so two such
\* trackers given the same calls stay equal after every step).
C19_ModeOnlyNotifies ==
    [][/\ \A config \in Configs :
            Construct(config) =>
               SameButMode(constructor([config EXCEPT !.mode = "visualization"], store),
                           constructor([config EXCEPT !.mode = "production"], store))
       /\ \A i \in Live :
            /\ \A touch \in Touches :
                  HandleTouch(i, touch) =>
                     SameOutcome(handleTouch(OtherMode(trackers[i]), store,
                                             touch.clientX, touch.clientY, touch.now),
                                 trackers'[i], store')
            /\ Reset(i) =>
                  SameOutcome(reset(OtherMode(trackers[i]), store), trackers'[i], store')
            /\ RemoveStorage(i) =>
                  removeStorage(OtherMode(trackers[i]), store) = store'
      ]_vars

\* a production tracker with an observer, a line and a persisted total that a
\* visualization tracker in its place would have notified of
C19_Witness ==
    \E i \in Live :
        /\ trackers[i].mode = "production"
        /\ trackers[i].observers # <<>>
        /\ Len(trackers[i].lines) = 1
        /\ HasItem(store, trackers[i].storageKey)
        /\ store[trackers[i].storageKey] = NumberToString(trackers[i].totalDistance)
        /\ calls = <<>>
        /\ notifyObservers(OtherMode(trackers[i])).calls # <<>>

\* C20: for a single tracker using a storage key whose entry at construction
\* was absent or a valid decimal, after construction and after every completed
\* handleTouch, reset or removeStorage call the persisted total entry is either
\* absent or holds exactly the tracker's current totalDistance, never a stale
\* value.
C20_PersistedTotalCurrent ==
    \A i \in Live :
        HasItem(store, trackers[i].storageKey)
            => ParseFloat(store[trackers[i].storageKey]) = trackers[i].totalDistance

\* a total restored from the store and raised by a line, persisted as raised
C20_Witness ==
    \E i \in Live :
        /\ loaded[i]
        /\ Len(trackers[i].lines) = 1
        /\ trackers[i].lines[1].distance > 0
        /\ HasItem(store, trackers[i].storageKey)
        /\ store[trackers[i].storageKey] = NumberToString(trackers[i].totalDistance)
        /\ trackers[i].totalDistance > trackers[i].lines[1].distance

\* the tracker was constructed with a storageKey and no touchLogKey
WithStorageKeyOnly(tk) ==
    /\ tk.storageKey \in {config.storageKey : config \in TwoConfigs}
    /\ tk.touchLogKey \notin {config.touchLogKey : config \in TwoConfigs}

\* C21: two trackers constructed on the same store with different explicit
\* storageKey values and no touchLogKey keep separate touch logs: handleTouch,
\* reset or removeStorage on one never changes what getTouchLog() returns on
\* the other.
C21_SeparateLogs ==
    [][\A i, j \in Live :
         (/\ i # j
          /\ WithStorageKeyOnly(trackers[i])
          /\ WithStorageKeyOnly(trackers[j])
          /\ trackers[i].storageKey # trackers[j].storageKey
          /\ \/ \E touch \in Touches : HandleTouch(i, touch)
             \/ Reset(i)
             \/ RemoveStorage(i))
            => getTouchLog(trackers'[j], store') = getTouchLog(trackers[j], store)
      ]_vars

\* the callbacks due to one observer, in order, with copies of the state of tk
NotifyOne(tk, observer) ==
    (IF "onPointsUpdated" \in Implements(observer)
     THEN <<[observer |-> observer, callback |-> "onPointsUpdated", arg |-> tk.points]>>
     ELSE <<>>)
    \o (IF "onLinesUpdated" \in Implements(observer)
        THEN <<[observer |-> observer, callback |-> "onLinesUpdated", arg |-> tk.lines]>>
        ELSE <<>>)
    \o (IF "onTotalDistanceUpdated" \in Implements(observer)
        THEN <<[observer |-> observer, callback |-> "onTotalDistanceUpdated",
                arg |-> tk.totalDistance]>>
        ELSE <<>>)

RECURSIVE NotifyEach(_, _)
\* the callbacks due to the observers obs, in registration order
NotifyEach(tk, obs) ==
    IF obs = <<>> THEN <<>>
    ELSE NotifyOne(tk, Head(obs)) \o NotifyEach(tk, Tail(obs))

\* C22: the observers notified in one notification round are exactly those
\* registered when the round starts, in registration order, and all state
\* changes of the triggering handleTouch or reset are applied before the first
\* callback: an observer removed by a callback during the round still receives
\* its callbacks in that round, and an observer added by a callback during the
\* round receives none until the next round.
C22_RoundOfRegistered ==
    [][\A i \in Live :
         ((\/ \E touch \in Touches : HandleTouch(i, touch)
           \/ Reset(i))
          /\ trackers[i].mode = "visualization") =>
            /\ calls' = NotifyEach(trackers'[i], trackers[i].observers)
            /\ \A o \in Observers \cup Reentrant :
                  CountIn(trackers'[i].observers, o) > CountIn(trackers[i].observers, o)
                     => \A cb \in AllCallbacks :
                           CountCalls(calls', o, cb)
                              = IF cb \in Implements(o)
                                THEN CountIn(trackers[i].observers, o) ELSE 0
      ]_vars

\* a round on the observers oAdder, oRemover, oAll: oAll, removed by oRemover,
\* got its three callbacks, and oPts, added by oAdder, got none
C22_Witness ==
    \E i \in Live :
        /\ trackers[i].observers = <<"oAdder", "oRemover", "oPts">>
        /\ Len(trackers[i].points) = 1
        /\ Len(calls) = 5
        /\ \A cb \in AllCallbacks : CountCalls(calls, "oAll", cb) = 1
        /\ CountCalls(calls, "oPts", "onPointsUpdated") = 0

====
